---- MODULE Spec2Model ----
(***************************************************************************)
(* A model of core/_common.py: the CommonFunction class of qlik-py-tools.  *)
(* One call at a time is served by one CommonFunction object; sys.path and *)
(* CommonFunction.log_no are shared by all the calls of the process.       *)
(*                                                                         *)
(* Text whose characters the code inspects (feature strings, the value of  *)
(* an argument, a backend type, a formatted number) is a sequence of       *)
(* one-character strings; names that are only compared are TLA+ strings.   *)
(***************************************************************************)
EXTENDS Integers, Sequences, FiniteSets, TLC

(***************************************************************************)
(* Bounds of the model.                                                    *)
(***************************************************************************)
MaxCalls == 3
MaxRows == 2
MaxFeatLen == 1
MaxRules == 3

(***************************************************************************)
(* Text helpers: str.lower, str.split(sep), sep.join.                      *)
(***************************************************************************)
UpperLetters ==
  <<"A","B","C","D","E","F","G","H","I","J","K","L","M",
    "N","O","P","Q","R","S","T","U","V","W","X","Y","Z">>

LowerLetters ==
  <<"a","b","c","d","e","f","g","h","i","j","k","l","m",
    "n","o","p","q","r","s","t","u","v","w","x","y","z">>

LowerChar(c) ==
  IF \E i \in DOMAIN UpperLetters : UpperLetters[i] = c
  THEN LowerLetters[CHOOSE i \in DOMAIN UpperLetters : UpperLetters[i] = c]
  ELSE c

Lower(s) == [i \in DOMAIN s |-> LowerChar(s[i])]

RECURSIVE Split(_, _)
Split(s, sep) ==
  IF s = <<>> THEN << <<>> >>
  ELSE LET rest == Split(Tail(s), sep)
       IN  IF Head(s) = sep
           THEN << <<>> >> \o rest
           ELSE << <<Head(s)>> \o Head(rest) >> \o Tail(rest)

RECURSIVE Join(_, _)
Join(sep, parts) ==
  IF parts = <<>> THEN <<>>
  ELSE IF Len(parts) = 1 THEN Head(parts)
  ELSE Head(parts) \o sep \o Join(sep, Tail(parts))

Range(s) == {s[i] : i \in DOMAIN s}

RECURSIVE SeqsUpTo(_, _)
SeqsUpTo(S, n) ==
  IF n = 0 THEN {<<>>}
  ELSE LET shorter == SeqsUpTo(S, n - 1)
       IN  shorter \cup {Append(s, x) : s \in {t \in shorter : Len(t) = n - 1}, x \in S}

(***************************************************************************)
(* Paths: os.getcwd, os.path.abspath, os.path.dirname.  A path is a flag   *)
(* (absolute or not) and its components.                                   *)
(***************************************************************************)
Cwd == <<"app", "core">>

RECURSIVE NormPath(_, _)
NormPath(stack, parts) ==
  IF parts = <<>> THEN stack
  ELSE IF Head(parts) = "." THEN NormPath(stack, Tail(parts))
  ELSE IF Head(parts) = ".."
       THEN NormPath(IF stack = <<>> THEN stack ELSE SubSeq(stack, 1, Len(stack) - 1),
                     Tail(parts))
  ELSE NormPath(Append(stack, Head(parts)), Tail(parts))

AbsPath(p) == IF p.abs THEN NormPath(<<>>, p.parts) ELSE NormPath(Cwd, p.parts)

DirName(a) == IF a = <<>> THEN a ELSE SubSeq(a, 1, Len(a) - 1)

Rel(parts) == [abs |-> FALSE, parts |-> parts]
Abs(parts) == [abs |-> TRUE, parts |-> parts]

(***************************************************************************)
(* The files the calls read: model descriptors (../models/<name>.yaml) and *)
(* the artifacts they point at.  A model's output shape is a property of   *)
(* the artifact and of the method invoked: cols = 0 stands for a           *)
(* one-dimensional output, cols = k > 0 for a two-dimensional one with k   *)
(* columns.                                                                *)
(***************************************************************************)
PredictName == <<"p","r","e","d","i","c","t">>
PredictProbaName == <<"p","r","e","d","i","c","t","_","p","r","o","b","a">>

SkPath == Rel(<<"..", "pretrained", "sk.pkl">>)
Sk3Path == Rel(<<"..", "models", "..", "pretrained", "sk3.pkl">>)
PrepPath == Rel(<<"..", "prep", ".", "scaler.pkl">>)
NnPath == Abs(<<"srv", "nn", "net.h5">>)
Nn2Path == Abs(<<"srv", "nn", "..", "nn", "pair.h5">>)
GonePath == Rel(<<"..", "old", "gone.pkl">>)
XgbPath == Rel(<<"..", "xgb", "booster.bin">>)

StrFeature(n) == [name |-> n, data_type |-> "str"]

Descriptors ==
  [sk  |-> [found |-> TRUE, path |-> SkPath, type |-> <<"s","k","l","e","a","r","n">>,
            has_prep |-> FALSE, preprocessor |-> SkPath,
            features |-> <<StrFeature("f1")>>],
   sk3 |-> [found |-> TRUE, path |-> Sk3Path,
            type |-> <<"S","c","i","k","i","t","-","L","e","a","r","n">>,
            has_prep |-> TRUE, preprocessor |-> PrepPath,
            features |-> <<StrFeature("f1"), StrFeature("f2")>>],
   nn  |-> [found |-> TRUE, path |-> NnPath, type |-> <<"K","e","r","a","s">>,
            has_prep |-> FALSE, preprocessor |-> NnPath,
            features |-> <<StrFeature("f1"), StrFeature("f2")>>],
   nn2 |-> [found |-> TRUE, path |-> Nn2Path, type |-> <<"k","e","r","a","s">>,
            has_prep |-> TRUE, preprocessor |-> PrepPath,
            features |-> <<StrFeature("f1")>>],
   xgb |-> [found |-> TRUE, path |-> XgbPath, type |-> <<"X","G","B","o","o","s","t">>,
            has_prep |-> TRUE, preprocessor |-> PrepPath,
            features |-> <<StrFeature("f1")>>],
   gone |-> [found |-> TRUE, path |-> GonePath, type |-> <<"s","k","l","e","a","r","n">>,
            has_prep |-> FALSE, preprocessor |-> GonePath,
            features |-> <<StrFeature("f1")>>],
   nofile |-> [found |-> FALSE, path |-> SkPath, type |-> <<>>,
            has_prep |-> FALSE, preprocessor |-> SkPath, features |-> <<>>]]

ModelNames == DOMAIN Descriptors

\* The artifact files on disk, by absolute path, with the methods each offers.
Artifacts ==
  { [at |-> AbsPath(SkPath),
     methods |-> {[name |-> PredictName, cols |-> 0], [name |-> PredictProbaName, cols |-> 2]}],
    [at |-> AbsPath(Sk3Path),
     methods |-> {[name |-> PredictName, cols |-> 0], [name |-> PredictProbaName, cols |-> 3]}],
    [at |-> AbsPath(PrepPath), methods |-> {}],
    [at |-> AbsPath(NnPath), methods |-> {[name |-> PredictName, cols |-> 1]}],
    [at |-> AbsPath(Nn2Path), methods |-> {[name |-> PredictName, cols |-> 2]}] }

FileExists(p) == \E a \in Artifacts : a.at = AbsPath(p)
ArtifactAt(p) == CHOOSE a \in Artifacts : a.at = AbsPath(p)

(***************************************************************************)
(* The requests the host sends.  The argument string (the kwargs cell of   *)
(* the first row) is kept as its sequence of key=value items, the value    *)
(* being the text after "=", type tag included.                            *)
(***************************************************************************)
Arg(k, v) == [key |-> k, val |-> v]

ArgDebugTrue == Arg("debug", <<"t","r","u","e">>)
ArgDebugMixed == Arg("debug", <<"T","r","U","e">>)
ArgDebugFalse == Arg("debug", <<"F","a","l","s","e">>)
ArgDebugYes == Arg("debug", <<"y","e","s">>)
ArgReturnProba == Arg("return", PredictProbaName)
ArgMinSupport == Arg("min_support", <<"0",".","2","|","f","l","o","a","t">>)
ArgBogus == Arg("x", <<"1","|","b","o","g","u","s">>)

KwargsInputs ==
  { <<>>, <<ArgDebugTrue>>, <<ArgDebugMixed>>, <<ArgDebugFalse>>, <<ArgDebugYes>>,
    <<ArgReturnProba>>, <<ArgMinSupport>>, <<ArgBogus>>,
    <<ArgDebugTrue, ArgReturnProba>>, <<ArgDebugYes, ArgMinSupport>>,
    <<ArgDebugTrue, ArgBogus>> }

\* Argument strings under which a call gets past parameter setup.
PlainKwargs == { <<ArgDebugFalse>>, <<ArgReturnProba>>, <<ArgDebugTrue, ArgReturnProba>> }

Keys == {"k1", "k2"}
NoKey == "-"
FeatureChars == {"a", "|"}
FeatureStrings == SeqsUpTo(FeatureChars, MaxFeatLen)

PredictRow(k, f) == [key |-> k, n_features |-> f]
KeyedRows == {PredictRow(k, f) : k \in Keys, f \in FeatureStrings}
ChartRows == {PredictRow(NoKey, f) : f \in FeatureStrings}
NonEmpty(S) == {s \in S : s # <<>>}

OneFeature == <<"a">>
TwoFeatures == <<"a", "|", "a">>
BaseRows(ls, f) == << PredictRow(IF ls THEN "k1" ELSE NoKey, f) >>

PredictRequest(ls, m, kw, rows) ==
  [op |-> "predict", load_script |-> ls, model_name |-> m, kwargs |-> kw, rows |-> rows]

\* Every argument string, on a model and rows that are in order.
ParamRequests ==
  {PredictRequest(ls, "sk", kw, BaseRows(ls, OneFeature)) : ls \in BOOLEAN, kw \in KwargsInputs}

\* Every descriptor, on arguments and rows that are in order.
ModelRequests ==
  {PredictRequest(ls, m, kw, BaseRows(ls, f)) :
     ls \in BOOLEAN, m \in ModelNames, kw \in PlainKwargs, f \in {OneFeature, TwoFeatures}}

\* Tables of several rows, keys repeated or out of order, on arguments that are in order.
SampleTables ==
  { <<PredictRow("k2", <<"a">>), PredictRow("k1", <<>>)>>,
    <<PredictRow("k1", <<"a">>), PredictRow("k1", <<"a", "a">>)>>,
    <<PredictRow("k1", <<"a", "|">>), PredictRow("k2", <<"a">>)>> }

SampleRequests ==
  {PredictRequest(TRUE, m, kw, rows) :
     m \in {"sk", "sk3"}, kw \in {<<ArgDebugFalse>>, <<ArgReturnProba>>}, rows \in SampleTables}

\* The models and arguments the tables of rows are tried on: a vector, a pair of
\* columns, three columns and a single column of output.
TableModels ==
  { <<"sk", <<ArgDebugFalse>> >>, <<"sk", <<ArgReturnProba>> >>,
    <<"sk3", <<ArgReturnProba>> >>, <<"nn", <<ArgDebugFalse>> >> }

\* Every table of rows, on arguments that are in order.
RowRequests ==
  {PredictRequest(TRUE, mk[1], mk[2], rows) :
     mk \in TableModels, rows \in NonEmpty(SeqsUpTo(KeyedRows, MaxRows))}
  \cup
  {PredictRequest(FALSE, mk[1], mk[2], rows) :
     mk \in TableModels, rows \in NonEmpty(SeqsUpTo(ChartRows, MaxRows))}

Groups == {"g1", "g2"}
RuleRow(g, i) == [group |-> g, item |-> i]
RuleTables ==
  { <<RuleRow("g1", "x"), RuleRow("g1", "y")>>,
    <<RuleRow("g2", "x"), RuleRow("g1", "y"), RuleRow("g2", "y"), RuleRow("g1", "z")>> }

RuleRequests ==
  {[op |-> "association_rules", load_script |-> FALSE, model_name |-> "", kwargs |-> kw,
    rows |-> rows] : kw \in KwargsInputs, rows \in RuleTables}

Requests == ParamRequests \cup ModelRequests \cup SampleRequests \cup RuleRequests

(***************************************************************************)
(* _utils.get_kwargs and _utils.get_kwargs_by_type (the parameter parser). *)
(***************************************************************************)
TypeTags == { <<"i","n","t">>, <<"f","l","o","a","t">>, <<"b","o","o","l">>, <<"s","t","r">> }

EmptyDict == [k \in {} |-> <<>>]

\* dict([arg.split("=") for arg in args]): a later item of the same key wins.
get_kwargs(raw) ==
  [k \in {raw[i].key : i \in DOMAIN raw} |->
     raw[CHOOSE i \in DOMAIN raw :
           /\ raw[i].key = k
           /\ \A j \in DOMAIN raw : raw[j].key = k => j <= i].val]

Pop(d, k) == [x \in (DOMAIN d) \ {k} |-> d[x]]

TypedOk(v) ==
  LET parts == Split(v, "|")
  IN  Len(parts) = 1 \/ (Len(parts) = 2 /\ parts[2] \in TypeTags)

TypedValue(v) ==
  LET parts == Split(v, "|")
  IN  IF Len(parts) = 1 THEN [value |-> parts[1], type |-> <<"s","t","r">>]
      ELSE [value |-> parts[1], type |-> parts[2]]

get_kwargs_by_type_ok(d) == \A k \in DOMAIN d : TypedOk(d[k])
get_kwargs_by_type(d) == [k \in DOMAIN d |-> TypedValue(d[k])]

(***************************************************************************)
(* State.                                                                  *)
(***************************************************************************)
VARIABLES
  sys_path,     \* sys.path of the process
  log_no,       \* CommonFunction.log_no, shared by every instance
  calls,        \* calls started so far in this process
  pc,           \* where the current call stands
  request,      \* the request of the current call, as the host sent it
  self,         \* the attributes of the CommonFunction object serving the call
  loaded,       \* the artifacts deserialized by the current call, in order
  sent,         \* the table descriptions the call has sent to the host
  returned,     \* what the call returned to its caller
  error,        \* the exception that ended the call
  prediction_func,  \* predict's local: the method to invoke on the model
  transactions,     \* association_rules' local: one tuple of items per group
  rules,            \* association_rules' local: the rules the library returned
  threads,      \* the calls served on worker threads: where each stands in _set_params
  log_files     \* the files under logs/, by the number in their name

vars == <<sys_path, log_no, calls, pc, request, self, loaded, sent, returned, error,
          prediction_func, transactions, rules, threads, log_files>>

\* What only calls on worker threads touch; their steps are below, under SpecThreads.
workers == <<threads, log_files>>

locals == <<prediction_func, transactions, rules>>

\* An exception: its Python type, which message it carries, the value the message names.
NoError == [kind |-> "none", msg |-> "", value |-> <<>>]
Raise(kind, msg, value) == [kind |-> kind, msg |-> msg, value |-> value]

NoFrame == [columns |-> <<>>, index |-> <<>>, rows |-> <<>>]
NoReturn == [kind |-> "none", data |-> <<>>]

\* __init__: request, context, path and logfile are the attributes set.
NewObject ==
  [attrs |-> {"request", "context", "path", "logfile"},
   logfile |-> 0, debug |-> FALSE, kwargs |-> EmptyDict, pass_on_kwargs |-> EmptyDict,
   request_df |-> NoFrame, prep |-> [present |-> FALSE, at |-> <<>>],
   model |-> [backend |-> "", at |-> <<>>, methods |-> {}], name |-> "",
   features_df |-> <<>>, X |-> NoFrame, y |-> [cols |-> 0, data |-> <<>>],
   response_df |-> NoFrame, table |-> <<>>]

Has(a) == a \in self.attrs

NoRequest ==
  [op |-> "none", load_script |-> FALSE, model_name |-> "", kwargs |-> <<>>, rows |-> <<>>]

\* sys.path once the module is imported: its own entries, then <parent>/generated.
InitialPath == << <<"app", "core">>, <<"usr", "lib", "python">>, <<"app", "generated">> >>

\* Two calls of one process, each a CommonFunction of its own on a thread of the
\* host's pool.
Threads == {"t1", "t2"}

\* The argument strings such calls carry: none, or one debug option.
ThreadKwargs == { <<>>, <<ArgDebugTrue>>, <<ArgDebugMixed>>, <<ArgDebugFalse>>, <<ArgDebugYes>> }

\* A call on a thread before it starts: __init__ sets logfile to None (0 here); read
\* is the value of log_no that the thread holds between reading and storing it.
NewThread == [pc |-> "idle", kwargs |-> <<>>, debug |-> FALSE, read |-> 0, logfile |-> 0]

\* logs/ holds no file: a file is the sequence of texts written to it since it was
\* last opened with mode 'w', each text with the thread that wrote it.
NoFiles == [n \in {} |-> <<>>]

Init ==
  /\ sys_path = InitialPath
  /\ log_no = 0
  /\ calls = 0
  /\ pc = "idle"
  /\ request = NoRequest
  /\ self = NewObject
  /\ loaded = <<>>
  /\ sent = <<>>
  /\ returned = NoReturn
  /\ error = NoError
  /\ prediction_func = <<>>
  /\ transactions = <<>>
  /\ rules = <<>>
  /\ threads = [t \in Threads |-> NewThread]
  /\ log_files = NoFiles

\* The host starts a call: CommonFunction(request, context) is constructed.
Construct(r) ==
  /\ pc \in {"idle", "done", "failed"}
  /\ request' = r
  /\ calls' = calls + 1
  /\ pc' = "initiate"
  /\ self' = NewObject
  /\ loaded' = <<>>
  /\ sent' = <<>>
  /\ returned' = NoReturn
  /\ error' = NoError
  /\ prediction_func' = <<>>
  /\ transactions' = <<>>
  /\ rules' = <<>>
  /\ UNCHANGED <<sys_path, log_no>>
  /\ UNCHANGED workers

\* Any request, in a process that serves up to MaxCalls calls one after the other.
NewCall ==
  /\ calls < MaxCalls
  /\ \E r \in Requests : Construct(r)

\* An association_rules call, as the first call of a process.
NewRulesCall ==
  /\ calls = 0
  /\ \E r \in RuleRequests : Construct(r)

\* A predict call on any table of rows, as the first call of a process.
NewTableCall ==
  /\ calls = 0
  /\ \E r \in RowRequests : Construct(r)

Fail(kind, msg, value) ==
  /\ pc' = "failed"
  /\ error' = Raise(kind, msg, value)

(***************************************************************************)
(* _initiate and _set_params.                                              *)
(***************************************************************************)
ColHeaders ==
  IF request.op = "association_rules" THEN <<"group", "item", "kwargs">>
  ELSE IF request.load_script THEN <<"model_name", "key", "n_features", "kwargs">>
  ELSE <<"model_name", "n_features", "kwargs">>

Drop(columns, c) == SelectSeq(columns, LAMBDA x : x # c)

\* utils.request_df: one table row per request row, under a RangeIndex.
RequestFrame ==
  [columns |-> ColHeaders,
   index |-> [i \in DOMAIN request.rows |-> i - 1],
   rows |-> IF request.op = "association_rules" THEN request.rows
            ELSE [i \in DOMAIN request.rows |->
                    [model_name |-> request.model_name, key |-> request.rows[i].key,
                     n_features |-> request.rows[i].n_features]]]

\* 'true' == self.kwargs.pop('debug').lower()
DebugOption(v) == Lower(v) = <<"t","r","u","e">>

Initiate ==
  /\ pc = "initiate"
  /\ LET raw == request.kwargs
         given == Len(raw) > 0
         parsed == get_kwargs(raw)
         has_debug == given /\ "debug" \in DOMAIN parsed
         dbg == has_debug /\ DebugOption(parsed["debug"])
         rest == IF has_debug THEN Pop(parsed, "debug") ELSE parsed
         typed_ok == get_kwargs_by_type_ok(rest)
         frame == RequestFrame
         after_kwargs ==
           [self EXCEPT !.attrs = @ \cup {"request_df", "debug"}
                                    \cup (IF given THEN {"kwargs"} ELSE {}),
                        !.request_df = frame,
                        !.debug = dbg,
                        !.kwargs = IF given THEN rest ELSE @,
                        !.logfile = IF dbg THEN log_no + 1 ELSE @]
     IN  /\ log_no' = IF dbg THEN log_no + 1 ELSE log_no
         /\ IF given /\ ~typed_ok
            THEN /\ self' = after_kwargs
                 /\ Fail("ParseError", "get_kwargs_by_type", <<>>)
            ELSE /\ self' = [after_kwargs EXCEPT
                               !.attrs = @ \cup (IF given THEN {"pass_on_kwargs"} ELSE {}),
                               !.pass_on_kwargs = IF given THEN get_kwargs_by_type(rest) ELSE @,
                               !.request_df = [frame EXCEPT !.columns = Drop(@, "kwargs")]]
                 /\ pc' = "params_set"
                 /\ UNCHANGED error
  /\ UNCHANGED <<sys_path, calls, request, loaded, sent, returned, locals>>
  /\ UNCHANGED workers

(***************************************************************************)
(* predict: the prediction function, then _get_model.                      *)
(***************************************************************************)
\* predict, lines 123-127: 'predict' unless the arguments name another method.
ReadPredictionFunc ==
  /\ pc = "params_set"
  /\ request.op = "predict"
  /\ IF ~Has("pass_on_kwargs")
     THEN /\ Fail("AttributeError", "pass_on_kwargs", <<>>)
          /\ UNCHANGED prediction_func
     ELSE /\ prediction_func' = IF "return" \in DOMAIN self.pass_on_kwargs
                                THEN self.pass_on_kwargs["return"].value
                                ELSE PredictName
          /\ pc' = "get_model"
          /\ UNCHANGED error
  /\ UNCHANGED <<sys_path, log_no, calls, request, self, loaded, sent, returned,
                 transactions, rules>>
  /\ UNCHANGED workers

Supported ==
  { <<"s","k","l","e","a","r","n">>, <<"s","c","i","k","i","t","-","l","e","a","r","n">>,
    <<"k","e","r","a","s">> }

SklearnTypes ==
  { <<"s","k","l","e","a","r","n">>, <<"s","c","i","k","i","t","-","l","e","a","r","n">> }

AnyTypeSupported(model_type) == TRUE

\* assert model_type in supported, with model_type already lower-cased
IsSupported(model_type) == model_type \in Supported

\* _add_model_path: sys.path after the directory of model_path is added to path.
AddModelPathAlways(path, model_path) == Append(path, DirName(AbsPath(model_path)))

AddModelPath(path, model_path) ==
  LET model_dir == DirName(AbsPath(model_path))
  IN  IF model_dir \in Range(path) THEN path ELSE Append(path, model_dir)

Pickle(p) == [at |-> AbsPath(p), by |-> "pickle.load"]
KerasLoad(p) == [at |-> AbsPath(p), by |-> "keras.models.load_model"]

\* _get_model, with _get_model_sklearn, _get_model_keras and _add_model_path.
GetModel ==
  /\ pc = "get_model"
  /\ LET model_name == self.request_df.rows[1].model_name
         model_meta == Descriptors[model_name]
         model_type == Lower(model_meta.type)
         path1 == IF model_meta.has_prep
                  THEN AddModelPath(sys_path, model_meta.preprocessor) ELSE sys_path
         prep_ok == model_meta.has_prep => FileExists(model_meta.preprocessor)
         loaded1 == IF model_meta.has_prep
                    THEN Append(loaded, Pickle(model_meta.preprocessor)) ELSE loaded
         path2 == AddModelPath(path1, model_meta.path)
         backend == IF model_type \in SklearnTypes THEN "sklearn" ELSE "keras"
     IN  IF ~model_meta.found
         THEN /\ Fail("FileNotFoundError", "descriptor_not_found", <<>>)
              /\ UNCHANGED <<sys_path, self, loaded>>
         ELSE IF ~IsSupported(model_type)
         THEN /\ Fail("AssertionError", "unsupported_model_type", model_meta.type)
              /\ UNCHANGED <<sys_path, self, loaded>>
         ELSE IF ~prep_ok
         THEN /\ Fail("FileNotFoundError", "", <<>>)
              /\ sys_path' = path1
              /\ UNCHANGED <<self, loaded>>
         ELSE IF ~FileExists(model_meta.path)
         THEN /\ Fail(IF backend = "sklearn" THEN "FileNotFoundError" ELSE "OSError", "", <<>>)
              /\ sys_path' = path2
              /\ loaded' = loaded1
              /\ self' = [self EXCEPT
                            !.attrs = @ \cup {"prep"},
                            !.prep = IF model_meta.has_prep
                                     THEN [present |-> TRUE, at |-> AbsPath(model_meta.preprocessor)]
                                     ELSE [present |-> FALSE, at |-> <<>>]]
         ELSE /\ sys_path' = path2
              /\ loaded' = Append(loaded1, IF backend = "sklearn" THEN Pickle(model_meta.path)
                                           ELSE KerasLoad(model_meta.path))
              /\ self' = [self EXCEPT
                            !.attrs = @ \cup {"prep", "model", "name", "features_df"},
                            !.prep = IF model_meta.has_prep
                                     THEN [present |-> TRUE, at |-> AbsPath(model_meta.preprocessor)]
                                     ELSE [present |-> FALSE, at |-> <<>>],
                            !.model = [backend |-> backend, at |-> AbsPath(model_meta.path),
                                       methods |-> ArtifactAt(model_meta.path).methods],
                            !.name = model_name,
                            !.features_df = [i \in DOMAIN model_meta.features |->
                                               [name |-> model_meta.features[i].name,
                                                data_type |-> model_meta.features[i].data_type,
                                                variable_type |-> "feature"]]]
              /\ pc' = "model_loaded"
              /\ UNCHANGED error
  /\ UNCHANGED <<log_no, calls, request, sent, returned, locals>>
  /\ UNCHANGED workers

(***************************************************************************)
(* predict: the feature matrix, the model's output, the response.          *)
(***************************************************************************)
Max(S) == CHOOSE x \in S : \A y \in S : y <= x

NoneCell == <<"N","o","n","e">>

\* pd.DataFrame(list of lists): a row shorter than the longest row is filled with None.
PadRow(values, width) ==
  [j \in 1..width |-> IF j <= Len(values) THEN [none |-> FALSE, text |-> values[j]]
                      ELSE [none |-> TRUE, text |-> <<>>]]

\* The width of the data pd.DataFrame is given: that of its longest row.
DataWidth(lists) == Max({Len(lists[i]) : i \in DOMAIN lists})

\* utils.convert_types for a feature declared str: the cell as text.
convert_types(X) ==
  [X EXCEPT !.rows = [i \in DOMAIN X.rows |->
                        [j \in DOMAIN X.rows[i] |->
                           IF X.rows[i][j].none THEN NoneCell ELSE X.rows[i][j].text]]]

\* predict, lines 133-147.
SplitFeatures ==
  /\ pc = "model_loaded"
  /\ LET feature_col_num == IF request.load_script THEN 2 ELSE 1
         frame == IF request.load_script
                  THEN [self.request_df EXCEPT
                          !.index = [i \in DOMAIN self.request_df.rows |->
                                       self.request_df.rows[i].key]]
                  ELSE self.request_df
         feature_col == frame.columns[feature_col_num + 1]
         lists == [i \in DOMAIN frame.rows |-> Split(frame.rows[i][feature_col], "|")]
         names == [j \in DOMAIN self.features_df |-> self.features_df[j].name]
         width == DataWidth(lists)
     IN  IF width # Len(names)
         THEN /\ Fail("AssertionError", "feature_arity", <<>>)
              /\ self' = [self EXCEPT !.request_df = frame]
         ELSE /\ self' = [self EXCEPT
                            !.attrs = @ \cup {"X"},
                            !.request_df = frame,
                            !.X = convert_types(
                                    [columns |-> names, index |-> frame.index,
                                     rows |-> [i \in DOMAIN lists |-> PadRow(lists[i], width)]])]
              /\ pc' = "features"
              /\ UNCHANGED error
  /\ UNCHANGED <<sys_path, log_no, calls, request, loaded, sent, returned, locals>>
  /\ UNCHANGED workers

RECURSIVE CountOf(_, _)
CountOf(c, s) ==
  IF s = <<>> THEN 0 ELSE (IF Head(s) = c THEN 1 ELSE 0) + CountOf(c, Tail(s))

RECURSIVE Sum(_)
Sum(s) == IF s = <<>> THEN 0 ELSE Head(s) + Sum(Tail(s))

\* What the (opaque) model computes for one sample: a number fixed by the sample alone.
Score(x) == Sum([j \in DOMAIN x |-> j * CountOf("a", x[j])]) % 10

\* The model's output for the matrix X: one entry per sample, in the order of X.
Output(cols, X) ==
  [cols |-> cols,
   data |-> [i \in DOMAIN X.rows |->
               IF cols = 0 THEN Score(X.rows[i])
               ELSE [j \in 1..cols |-> (Score(X.rows[i]) + j - 1) % 10]]]

\* predict, lines 149-154.
Invoke ==
  /\ pc = "features"
  /\ IF \E m \in self.model.methods : m.name = prediction_func
     THEN /\ self' = [self EXCEPT
                        !.attrs = @ \cup {"y"},
                        !.y = Output((CHOOSE m \in self.model.methods :
                                        m.name = prediction_func).cols, self.X)]
          /\ pc' = "predicted"
          /\ UNCHANGED error
     ELSE /\ Fail("AttributeError", "prediction_func", prediction_func)
          /\ UNCHANGED self
  /\ UNCHANGED <<sys_path, log_no, calls, request, loaded, sent, returned, locals>>
  /\ UNCHANGED workers

Digits == <<"0","1","2","3","4","5","6","7","8","9">>

\* ndarray.astype(str) of a non-negative integer
RECURSIVE AsStr(_)
AsStr(n) == IF n < 10 THEN <<Digits[n + 1]>> ELSE AsStr(n \div 10) \o <<Digits[(n % 10) + 1]>>

IsWide(y) == y.cols > 0 /\ y.cols >= 2

\* len(self.y.shape) > 1 and self.y.shape[1] == 2
IsPair(y) == y.cols > 0 /\ y.cols = 2

\* "|".join(item) for one row of y.astype(str)
PipeJoin(item) == Join(<<"|">>, [j \in DOMAIN item |-> AsStr(item[j])])

\* The result column: pipe-joined text for a pair of outputs, else the output itself.
ResultColumn(y) ==
  [i \in DOMAIN y.data |->
     IF IsPair(y) THEN PipeJoin(y.data[i])
     ELSE IF y.cols = 0 THEN y.data[i] ELSE y.data[i][1]]

\* predict, lines 156-161: a frame of one column takes a vector or a matrix of one column.
Reshape ==
  /\ pc = "predicted"
  /\ IF ~IsPair(self.y) /\ self.y.cols > 1
     THEN /\ Fail("ValueError", "shape", <<>>)
          /\ UNCHANGED self
     ELSE /\ self' = [self EXCEPT
                        !.attrs = @ \cup {"response_df"},
                        !.response_df =
                          [columns |-> <<"result">>, index |-> self.X.index,
                           rows |-> [i \in DOMAIN self.y.data |->
                                       [result |-> ResultColumn(self.y)[i]]]]]
          /\ pc' = "reshaped"
          /\ UNCHANGED error
  /\ UNCHANGED <<sys_path, log_no, calls, request, loaded, sent, returned, locals>>
  /\ UNCHANGED workers

\* DataFrame.join: a left join on the index, the matches of a left row in the right's order.
RECURSIVE Flatten(_)
Flatten(ss) == IF ss = <<>> THEN <<>> ELSE Head(ss) \o Flatten(Tail(ss))

Matches(right, label) == SelectSeq([j \in DOMAIN right.index |-> j], LAMBDA j : right.index[j] = label)

JoinPairs(left, right) ==
  Flatten([i \in DOMAIN left.index |->
             [n \in DOMAIN Matches(right, left.index[i]) |->
                <<i, Matches(right, left.index[i])[n]>>]])

\* predict, lines 163-165: request_df.join(response_df).drop(['n_features'], axis=1)
JoinKeys ==
  /\ pc = "reshaped"
  /\ request.load_script
  /\ LET pairs == JoinPairs(self.request_df, self.response_df)
     IN  self' = [self EXCEPT
                    !.response_df =
                      [columns |-> Drop(self.request_df.columns, "n_features") \o <<"result">>,
                       index |-> [n \in DOMAIN pairs |-> self.request_df.index[pairs[n][1]]],
                       rows |-> [n \in DOMAIN pairs |->
                                   [model_name |-> self.request_df.rows[pairs[n][1]].model_name,
                                    key |-> self.request_df.rows[pairs[n][1]].key,
                                    result |-> self.response_df.rows[pairs[n][2]].result]]]]
  /\ pc' = "built"
  /\ UNCHANGED <<sys_path, log_no, calls, request, loaded, sent, returned, error, locals>>
  /\ UNCHANGED workers

(***************************************************************************)
(* _send_table_description and the return of predict.                      *)
(***************************************************************************)
Field(n, t) == [name |-> n, dataType |-> t]

AprioriFields ==
  <<Field("rule", 0), Field("rule_lhs", 0), Field("rule_rhs", 0),
    Field("support", 1), Field("confidence", 1), Field("lift", 1)>>

PredictFields == <<Field("model_name", 0), Field("key", 0), Field("prediction", 0)>>

TableDescriptionOfRequest(variant, df) ==
  [name |-> "SSE-Response",
   numberOfRows |-> Len(request.rows),
   fields |-> IF variant = "apriori" THEN AprioriFields
              ELSE IF variant = "predict" THEN PredictFields ELSE <<>>]

\* SSE.TableDescription as _send_table_description fills it in.
TableDescription(variant, df) ==
  [name |-> "SSE-Response",
   numberOfRows |-> Len(df.rows),
   fields |-> IF variant = "apriori" THEN AprioriFields
              ELSE IF variant = "predict" THEN PredictFields ELSE <<>>]

Variant == IF request.op = "association_rules" THEN "apriori" ELSE "predict"

\* _send_table_description, called at line 98 and at line 168.
SendTableDescription ==
  /\ pc = "built"
  /\ self' = [self EXCEPT !.attrs = @ \cup {"table"},
                          !.table = TableDescription(Variant, self.response_df)]
  /\ sent' = Append(sent, TableDescription(Variant, self.response_df))
  /\ pc' = "described"
  /\ UNCHANGED <<sys_path, log_no, calls, request, loaded, returned, error, locals>>
  /\ UNCHANGED workers

\* predict, lines 170-182, and association_rules, line 100.
Return ==
  /\ \/ pc = "described"
     \/ pc = "reshaped" /\ ~request.load_script
  /\ returned' = IF pc = "described"
                 THEN [kind |-> "DataFrame", data |-> self.response_df.rows]
                 ELSE [kind |-> "Series",
                       data |-> [i \in DOMAIN self.response_df.rows |->
                                   self.response_df.rows[i].result]]
  /\ pc' = "done"
  /\ UNCHANGED <<sys_path, log_no, calls, request, self, loaded, sent, error, locals>>
  /\ UNCHANGED workers

(***************************************************************************)
(* association_rules.                                                      *)
(***************************************************************************)
Rule(l, r, s, c) == [lhs |-> l, rhs |-> r, support |-> s, confidence |-> c]

\* The rules the library can emit, support and confidence in hundredths.
CandidateRules ==
  { Rule(<<"x">>, <<"y">>, 50, 60), Rule(<<"y">>, <<"x">>, 50, 70),
    Rule(<<"x", "y">>, <<"z">>, 30, 80), Rule(<<"z">>, <<"x", "y">>, 30, 40) }

Lifts == {1, 2}

WithLift(r, l) ==
  [lhs |-> r.lhs, rhs |-> r.rhs, support |-> r.support, confidence |-> r.confidence,
   lift |-> l]

SameRule(a, b) == a.lhs = b.lhs /\ a.rhs = b.rhs

\* What apriori can return: each rule at most once, in any order, with any lift.
RuleLists ==
  {s \in SeqsUpTo({WithLift(r, l) : r \in CandidateRules, l \in Lifts}, MaxRules) :
     \A i, j \in DOMAIN s : i # j => ~SameRule(s[i], s[j])}

\* The keyword parameters efficient_apriori.apriori takes.
AprioriParams ==
  {"min_support", "min_confidence", "max_length", "verbosity", "output_transaction_ids"}

\* request_df['group'].unique(): the distinct groups, first seen first.
RECURSIVE Unique(_)
Unique(s) ==
  IF s = <<>> THEN <<>>
  ELSE LET init == Unique(SubSeq(s, 1, Len(s) - 1))
           last == s[Len(s)]
       IN  IF last \in Range(init) THEN init ELSE Append(init, last)

Transactions(rows) ==
  LET groups == Unique([i \in DOMAIN rows |-> rows[i].group])
      items(g) == SelectSeq(rows, LAMBDA r : r.group = g)
  IN  [n \in DOMAIN groups |-> [i \in DOMAIN items(groups[n]) |-> items(groups[n])[i].item]]

\* Some of the lists apriori can return: none, one rule, three rules two of which tie.
SampleRuleLists ==
  { <<>>,
    <<WithLift(Rule(<<"x">>, <<"y">>, 50, 60), 2)>>,
    <<WithLift(Rule(<<"x">>, <<"y">>, 50, 60), 1), WithLift(Rule(<<"x", "y">>, <<"z">>, 30, 80), 2),
      WithLift(Rule(<<"y">>, <<"x">>, 50, 70), 1)>> }

\* association_rules, lines 65-73, the library returning one of lists.
Mine(lists) ==
  /\ pc = "params_set"
  /\ request.op = "association_rules"
  /\ transactions' = Transactions(self.request_df.rows)
  /\ IF ~Has("pass_on_kwargs")
     THEN /\ Fail("AttributeError", "pass_on_kwargs", <<>>)
          /\ UNCHANGED rules
     ELSE IF ~(DOMAIN self.pass_on_kwargs \subseteq AprioriParams)
     THEN /\ Fail("TypeError", "apriori", <<>>)
          /\ UNCHANGED rules
     ELSE /\ \E found \in lists : rules' = found
          /\ pc' = "mined"
          /\ UNCHANGED error
  /\ UNCHANGED <<sys_path, log_no, calls, request, self, loaded, sent, returned,
                 prediction_func>>
  /\ UNCHANGED workers

Apriori == Mine(SampleRuleLists)

AprioriAny == Mine(RuleLists)

\* sorted(rules, key=lambda rule: rule.lift, reverse=True): one rule put in its place.
InsertByLiftBeforeTies(s, r) ==
  LET before == SelectSeq(s, LAMBDA x : x.lift > r.lift)
  IN  before \o <<r>> \o SubSeq(s, Len(before) + 1, Len(s))

InsertByLift(s, r) ==
  LET before == SelectSeq(s, LAMBDA x : x.lift >= r.lift)
  IN  before \o <<r>> \o SubSeq(s, Len(before) + 1, Len(s))

RECURSIVE SortedByLift(_)
SortedByLift(rs) ==
  IF rs = <<>> THEN <<>>
  ELSE InsertByLift(SortedByLift(SubSeq(rs, 1, Len(rs) - 1)), rs[Len(rs)])

\* ", ".join(map(str, side))
CommaJoin(side) == Join(<<", ">>, [i \in DOMAIN side |-> <<side[i]>>])

ResponseRow(rule) ==
  [rule |-> CommaJoin(rule.lhs) \o <<" -> ">> \o CommaJoin(rule.rhs),
   rule_lhs |-> CommaJoin(rule.lhs), rule_rhs |-> CommaJoin(rule.rhs),
   support |-> rule.support, confidence |-> rule.confidence, lift |-> rule.lift]

\* if len(response) == 0: raise Exception(err)
NoRulesFoundNever(response) == FALSE

NoRulesFound(response) == Len(response) = 0

\* association_rules, lines 75-91.
RankRules ==
  /\ pc = "mined"
  /\ LET ranked == SortedByLift(rules)
         response == [i \in DOMAIN ranked |-> ResponseRow(ranked[i])]
     IN  IF NoRulesFound(response)
         THEN /\ Fail("Exception", "no_rules_lower_min_support_min_confidence", <<>>)
              /\ UNCHANGED self
         ELSE /\ self' = [self EXCEPT
                            !.attrs = @ \cup {"response_df"},
                            !.response_df =
                              [columns |-> <<"rule", "rule_lhs", "rule_rhs", "support",
                                             "confidence", "lift">>,
                               index |-> [i \in DOMAIN response |-> i - 1],
                               rows |-> response]]
              /\ pc' = "built"
              /\ UNCHANGED error
  /\ UNCHANGED <<sys_path, log_no, calls, request, loaded, sent, returned, locals>>
  /\ UNCHANGED workers

PredictSteps ==
  \/ ReadPredictionFunc
  \/ GetModel
  \/ SplitFeatures
  \/ Invoke
  \/ Reshape
  \/ JoinKeys

\* A process that serves up to MaxCalls calls of either kind, one after the other.
Next == NewCall \/ Initiate \/ PredictSteps \/ Apriori \/ RankRules \/ SendTableDescription \/ Return

Spec == Init /\ [][Next]_vars

\* One predict call, on any table of rows.
NextTable == NewTableCall \/ Initiate \/ PredictSteps \/ SendTableDescription \/ Return

SpecTable == Init /\ [][NextTable]_vars

\* One association_rules call, the library returning any list of rules.
NextRules == NewRulesCall \/ Initiate \/ AprioriAny \/ RankRules \/ SendTableDescription \/ Return

SpecRules == Init /\ [][NextRules]_vars

(***************************************************************************)
(* Calls on worker threads.  Each runs _initiate and _set_params on an     *)
(* object of its own; what the threads share is CommonFunction.log_no and  *)
(* the files under logs/, so each access to those is a step of its own and *)
(* the steps of different threads interleave in any order.                 *)
(***************************************************************************)
\* What the calls served one after the other use, the class counter apart.
serving == <<sys_path, calls, pc, request, self, loaded, sent, returned, error, locals>>

\* The _print_log calls of parameter setup, in order: 1 and 2 from _set_params, 3
\* from _initiate.
LogSteps == <<"print_log_1", "print_log_2", "print_log_3">>

\* __init__, then _set_params down to the debug option.  Without debug nothing more
\* of the setup touches log_no or a log file.
SetDebug(t) ==
  /\ threads[t].pc = "idle"
  /\ \E raw \in ThreadKwargs :
       LET given == Len(raw) > 0
           parsed == get_kwargs(raw)
           has_debug == given /\ "debug" \in DOMAIN parsed
           dbg == has_debug /\ DebugOption(parsed["debug"])
       IN  threads' = [threads EXCEPT
                         ![t] = [@ EXCEPT !.pc = IF dbg THEN "load_log_no" ELSE "done",
                                          !.kwargs = raw,
                                          !.debug = dbg]]
  /\ UNCHANGED <<log_no, log_files, serving>>

\* self.__class__.log_no += 1, first half: the value of the class attribute is read.
LoadLogNo(t) ==
  /\ threads[t].pc = "load_log_no"
  /\ threads' = [threads EXCEPT ![t] = [@ EXCEPT !.pc = "store_log_no", !.read = log_no]]
  /\ UNCHANGED <<log_no, log_files, serving>>

\* self.__class__.log_no += 1, second half: the value read, plus one, is stored.
StoreLogNo(t) ==
  /\ threads[t].pc = "store_log_no"
  /\ log_no' = threads[t].read + 1
  /\ threads' = [threads EXCEPT ![t] = [@ EXCEPT !.pc = "name_logfile"]]
  /\ UNCHANGED <<log_files, serving>>

\* self.logfile = '...Log {}.txt'.format(self.log_no): the class attribute is read
\* again, through the instance.
NameLogFile(t) ==
  /\ threads[t].pc = "name_logfile"
  /\ threads' = [threads EXCEPT ![t] = [@ EXCEPT !.pc = LogSteps[1], !.logfile = log_no]]
  /\ UNCHANGED <<log_no, log_files, serving>>

\* open(self.logfile, mode): what the file holds once opened.
Open(n, mode) == IF mode = "w" \/ n \notin DOMAIN log_files THEN <<>> ELSE log_files[n]

\* _print_log(step): step 1 opens the file with mode 'w', the others with 'a'.
PrintLog(t) ==
  \E step \in DOMAIN LogSteps :
    /\ threads[t].pc = LogSteps[step]
    /\ LET unnamed == threads[t].logfile = 0
           n == IF unnamed THEN log_no + 1 ELSE threads[t].logfile
           mode == IF step = 1 THEN "w" ELSE "a"
       IN  /\ log_no' = IF unnamed THEN log_no + 1 ELSE log_no
           /\ log_files' = [m \in DOMAIN log_files \cup {n} |->
                              IF m = n THEN Append(Open(n, mode), [by |-> t, step |-> step])
                              ELSE log_files[m]]
           /\ threads' = [threads EXCEPT
                            ![t] = [@ EXCEPT !.pc = IF step < Len(LogSteps)
                                                    THEN LogSteps[step + 1] ELSE "done",
                                             !.logfile = n]]
    /\ UNCHANGED serving

\* The parameter setup of two calls, their steps in any order.
NextThreads ==
  \E t \in Threads :
    SetDebug(t) \/ LoadLogNo(t) \/ StoreLogNo(t) \/ NameLogFile(t) \/ PrintLog(t)

SpecThreads == Init /\ [][NextThreads]_vars

(***************************************************************************)
(* The claims.                                                             *)
(***************************************************************************)
SetupDone == pc \notin {"idle", "initiate"}

\* C1: when the argument string of the request is empty, parameter setup yields
\* debug = false and an empty pass-through parameter set and raises no error, so
\* that predict and association_rules can read the pass-through parameters.
C1_EmptyArgsGiveDefaults ==
  (SetupDone /\ request.kwargs = <<>>) =>
     /\ self.debug = FALSE
     /\ Has("pass_on_kwargs")
     /\ self.pass_on_kwargs = EmptyDict
     /\ ~(pc = "failed" /\ error.msg \in {"pass_on_kwargs", "get_kwargs_by_type"})

(***************************************************************************)
(* The response of a keyed call, row by row.                               *)
(***************************************************************************)
KeyedResponse ==
  /\ request.op = "predict"
  /\ request.load_script
  /\ pc \in {"built", "described", "done"}

\* What the model returns for the feature string f alone, as the result column shows it.
ExpectedResult(f) ==
  LET values == Split(f, "|")
      alone == convert_types([columns |-> <<>>, index |-> <<0>>,
                              rows |-> <<PadRow(values, Len(values))>>])
  IN  ResultColumn(Output(self.y.cols, alone))[1]

RequestPair(i) ==
  [key |-> request.rows[i].key, result |-> ExpectedResult(request.rows[i].n_features)]

ResponsePair(j) ==
  [key |-> self.response_df.rows[j].key, result |-> self.response_df.rows[j].result]

\* C2: in a keyed predict call the response has exactly one row per request row,
\* and each response row pairs a request row's key with the model output computed
\* from that same row's feature string, whatever the keys and their order.
C2_KeyedRowsAligned ==
  KeyedResponse =>
     /\ Len(self.response_df.rows) = Len(request.rows)
     /\ \A j \in DOMAIN self.response_df.rows :
          Cardinality({i \in DOMAIN request.rows : RequestPair(i) = ResponsePair(j)})
            = Cardinality({k \in DOMAIN self.response_df.rows :
                             ResponsePair(k) = ResponsePair(j)})

\* The split step of predict has run: the model is loaded and the call has moved on.
SplitDone == request.op = "predict" /\ Has("features_df") /\ pc # "model_loaded"

SomeRowOffArity ==
  \E i \in DOMAIN request.rows :
     Len(Split(request.rows[i].n_features, "|")) # Len(self.features_df)

\* C3: when some row's feature string splits on "|" into a number of values other
\* than the number of features of the model, predict fails with the feature-arity
\* error and produces no response; no such row is padded and passed on.
C3_ArityMismatchFails ==
  (SplitDone /\ SomeRowOffArity) =>
     /\ pc = "failed"
     /\ error.kind = "AssertionError" /\ error.msg = "feature_arity"
     /\ ~Has("X")
     /\ ~Has("response_df")

(***************************************************************************)
(* The result column, right after it is built.                             *)
(***************************************************************************)
ReshapeDone == request.op = "predict" /\ Has("y") /\ pc # "predicted"

RowOrderKept ==
  /\ Len(self.response_df.rows) = Len(request.rows)
  /\ \A i \in DOMAIN request.rows :
       self.response_df.index[i] = IF request.load_script THEN request.rows[i].key ELSE i - 1

PairJoined ==
  \A i \in DOMAIN self.y.data :
     self.response_df.rows[i].result
       = AsStr(self.y.data[i][1]) \o <<"|">> \o AsStr(self.y.data[i][2])

OutputUnchanged ==
  \A i \in DOMAIN self.y.data :
     self.response_df.rows[i].result
       = IF self.y.cols = 0 THEN self.y.data[i] ELSE self.y.data[i][1]

C5_DebugIsBoolean ==
  (SetupDone /\ Len(request.kwargs) > 0 /\ "debug" \in DOMAIN get_kwargs(request.kwargs)) =>
     LET v == Lower(get_kwargs(request.kwargs)["debug"])
     IN  IF v = <<"t","r","u","e">> THEN self.debug = TRUE
         ELSE IF v = <<"f","a","l","s","e">> THEN self.debug = FALSE
         ELSE pc = "failed" /\ error.kind = "ParseError"

(***************************************************************************)
(* Model loading and sys.path.                                             *)
(***************************************************************************)
\* A step of _get_model on the descriptor the request names.
GetModelStep == pc = "get_model" /\ pc' # "get_model"

RequestedMeta == Descriptors[request.model_name]

\* C6: a descriptor whose backend type, compared case-insensitively, is not
\* sklearn, scikit-learn or keras makes model loading fail with the unsupported
\* type error naming the type as written, before any artifact is deserialized
\* and before sys.path is changed.
C6_UnsupportedBackendFailsFirst ==
  [][ (GetModelStep /\ RequestedMeta.found /\ Lower(RequestedMeta.type) \notin Supported) =>
        /\ pc' = "failed"
        /\ error'.kind = "AssertionError"
        /\ error'.msg = "unsupported_model_type"
        /\ error'.value = RequestedMeta.type
        /\ loaded' = <<>>
        /\ sys_path' = sys_path
        /\ ~("model" \in self'.attrs) /\ ~("prep" \in self'.attrs) ]_vars

C6_Witness ==
  /\ pc = "failed"
  /\ request.model_name = "xgb"
  /\ error = Raise("AssertionError", "unsupported_model_type", <<"X","G","B","o","o","s","t">>)
  /\ loaded = <<>>

IsPrefix(s, t) == Len(s) <= Len(t) /\ SubSeq(t, 1, Len(s)) = s

\* The directories of the artifacts a descriptor points at.
ArtifactDirs(meta) ==
  {DirName(AbsPath(meta.path))}
    \cup (IF meta.has_prep THEN {DirName(AbsPath(meta.preprocessor))} ELSE {})

\* C7: over any sequence of loads sys.path only grows: the entries present before
\* a load stay, in their order; a load appends the absolute directory of an
\* artifact only when that directory is not yet in the path, so a load from
\* directories that are all in the path already leaves the path as it was.
C7_PathOnlyGrows ==
  [][ /\ IsPrefix(sys_path, sys_path')
      /\ \A i \in (Len(sys_path) + 1)..Len(sys_path') :
           /\ sys_path'[i] \notin Range(SubSeq(sys_path', 1, i - 1))
           /\ GetModelStep
           /\ sys_path'[i] \in ArtifactDirs(RequestedMeta)
      /\ (GetModelStep /\ ArtifactDirs(RequestedMeta) \subseteq Range(sys_path)) =>
           sys_path' = sys_path ]_vars

\* A second call has loaded a model from a directory that an earlier call had added.
C7_Witness ==
  /\ calls = 2
  /\ pc = "model_loaded"
  /\ request.model_name = "sk"
  /\ sys_path = InitialPath \o << <<"app", "prep">>, <<"app", "pretrained">> >>

(***************************************************************************)
(* The table description.                                                  *)
(***************************************************************************)
SendsTable == request.op = "association_rules" \/ request.load_script

ExpectedFields ==
  IF request.op = "association_rules"
  THEN <<[name |-> "rule", dataType |-> 0], [name |-> "rule_lhs", dataType |-> 0],
         [name |-> "rule_rhs", dataType |-> 0], [name |-> "support", dataType |-> 1],
         [name |-> "confidence", dataType |-> 1], [name |-> "lift", dataType |-> 1]>>
  ELSE <<[name |-> "model_name", dataType |-> 0], [name |-> "key", dataType |-> 0],
         [name |-> "prediction", dataType |-> 0]>>

\* C8: an association_rules call or a keyed predict call that returns a response
\* table sends the table description (name, the number of response rows, the
\* fields of the variant) exactly once, after the response table is built and
\* before it is returned; a call that fails sends none.
C8_DescriptionSentOnce ==
  /\ Len(sent) <= 1
  /\ sent # <<>> =>
       /\ SendsTable
       /\ pc \in {"described", "done"}
       /\ Has("response_df")
       /\ sent[1].name = "SSE-Response"
       /\ sent[1].numberOfRows = Len(self.response_df.rows)
       /\ sent[1].fields = ExpectedFields
  /\ returned # NoReturn =>
       /\ pc = "done"
       /\ SendsTable => (Len(sent) = 1 /\ returned.data = self.response_df.rows)
  /\ (pc = "done" /\ SendsTable) => Len(sent) = 1
  /\ pc = "failed" => (sent = <<>> /\ returned = NoReturn)

\* A keyed call whose response has more rows than its request, described and returned.
C8_Witness ==
  /\ pc = "done"
  /\ request.load_script
  /\ Len(request.rows) = 2
  /\ Len(sent) = 1
  /\ sent[1].numberOfRows = 4
  /\ Len(returned.data) = 4

(***************************************************************************)
(* association_rules.                                                      *)
(***************************************************************************)
\* apriori has returned, and the ranking step has run.
RankDone ==
  /\ request.op = "association_rules"
  /\ pc \in {"built", "described", "done", "failed"}
  /\ Has("pass_on_kwargs")
  /\ DOMAIN self.pass_on_kwargs \subseteq AprioriParams

\* C9: when the library returns no rule, association_rules fails with the error
\* that advises lowering min_support and min_confidence; it returns no empty table.
C9_NoRulesIsAnError ==
  (RankDone /\ rules = <<>>) =>
     /\ pc = "failed"
     /\ error.kind = "Exception"
     /\ error.msg = "no_rules_lower_min_support_min_confidence"
     /\ ~Has("response_df")
     /\ sent = <<>>
     /\ returned = NoReturn

C9_Witness ==
  /\ RankDone
  /\ rules = <<>>
  /\ pc = "failed"
  /\ "min_support" \in DOMAIN self.pass_on_kwargs

\* The place in the library's list of the rule a response row shows.
EmittedAt(row) ==
  CHOOSE k \in DOMAIN rules :
     /\ CommaJoin(rules[k].lhs) = row.rule_lhs
     /\ CommaJoin(rules[k].rhs) = row.rule_rhs

\* C10: for a non-empty list of rules, the response table has exactly those rules,
\* one row each, by lift descending, and rules of equal lift keep the order in
\* which the library emitted them.
C10_RankedByLiftStable ==
  (request.op = "association_rules" /\ pc \in {"built", "described", "done"}) =>
     LET rows == self.response_df.rows
     IN  /\ rules # <<>>
         /\ Len(rows) = Len(rules)
         /\ \A i \in DOMAIN rows :
              /\ \E k \in DOMAIN rules : rows[i] = ResponseRow(rules[k])
              /\ rows[i] = ResponseRow(rules[EmittedAt(rows[i])])
         /\ \A i, j \in DOMAIN rows :
              i < j =>
                /\ EmittedAt(rows[i]) # EmittedAt(rows[j])
                /\ rows[i].lift >= rows[j].lift
                /\ rows[i].lift = rows[j].lift => EmittedAt(rows[i]) < EmittedAt(rows[j])

\* Three rules, the second of a higher lift than the first and the third, which tie.
C10_Witness ==
  /\ request.op = "association_rules"
  /\ pc = "built"
  /\ Len(rules) = 3
  /\ rules[1].lift = 1 /\ rules[2].lift = 2 /\ rules[3].lift = 1
  /\ self.response_df.rows[1] = ResponseRow(rules[2])
  /\ self.response_df.rows[2] = ResponseRow(rules[1])
  /\ self.response_df.rows[3] = ResponseRow(rules[3])

\* The debug-enabled calls on threads, those past the increment of log_no, and
\* those that hold a log file name.
DebugCalls == {t \in Threads : threads[t].debug}
Incremented == {t \in DebugCalls : threads[t].pc \notin {"load_log_no", "store_log_no"}}
Named == {t \in Threads : threads[t].logfile # 0}

\* The _print_log steps a call has made so far.
StepsDone(t) ==
  IF threads[t].pc = "done"
  THEN IF threads[t].debug THEN DOMAIN LogSteps ELSE {}
  ELSE {s \in DOMAIN LogSteps :
          \E k \in DOMAIN LogSteps : LogSteps[k] = threads[t].pc /\ s < k}

\* log_no counts the debug-enabled calls past their increment, and nothing else.
CountedOncePerDebugCall == log_no = Cardinality(Incremented)

\* No two calls hold the same log file name.
LogFileNamesDiffer ==
  \A t, u \in Named : t # u => threads[t].logfile # threads[u].logfile

\* Every text in a file was written by the call the file belongs to, and every
\* text a call wrote is still in its file.
LogFilesKeptApart ==
  /\ \A n \in DOMAIN log_files :
       \A e \in Range(log_files[n]) : threads[e.by].logfile = n
  /\ \A t \in Threads :
       \A s \in StepsDone(t) :
         /\ threads[t].logfile \in DOMAIN log_files
         /\ [by |-> t, step |-> s] \in Range(log_files[threads[t].logfile])

\* C11: for any two calls of one process, their parameter setup interleaved on
\* different threads or not, the class-wide log counter is incremented exactly
\* once per debug-enabled call and never by a call with debug = false, two
\* debug-enabled calls hold different log file names, and no call truncates or
\* writes into the log file of another.
C11_LogCounterOncePerCall ==
  /\ CountedOncePerDebugCall
  /\ LogFileNamesDiffer
  /\ LogFilesKeptApart
====
